---- MODULE Spec2Model ----
(***************************************************************************)
(* Response persistence, deduplication and load-time reconciliation of the *)
(* pottery studio survey (src/app.py, src/results.py).                     *)
(*                                                                         *)
(* Python dicts are TLA+ functions whose DOMAIN is the set of keys; cells  *)
(* of the remote sheet and of the local CSV are strings; a row is a        *)
(* sequence of cells; the sheet and the CSV are sequences of rows whose    *)
(* first row is the header.                                                *)
(***************************************************************************)
EXTENDS Integers, Sequences, FiniteSets, TLC

VARIABLES
    sheet,        \* remote table "Sheet1": the rows as written, header first
    csv_exists,   \* os.path.exists("survey_responses.csv")
    csv,          \* lines of survey_responses.csv, header first
    now,          \* number of datetime.now() readings taken so far
    issued,       \* the uuid4 values handed out so far
    survey_data,  \* st.session_state.survey_data
    is_update,    \* st.session_state.is_update
    last,         \* what the last save_response or update_response call did
    df,           \* what the last load_responses returned
    cache,        \* the entry st.cache_data holds for load_responses
    loads,        \* load_responses calls made, and how many read the sheet
    saves         \* the save_response calls running side by side

vars ==
    <<sheet, csv_exists, csv, now, issued, survey_data, is_update, last, df,
      cache, loads, saves>>

----------------------------------------------------------------------------
(* Bounds of the model *)

\* datetime.now() is read at most MaxTime times in one behaviour
MaxTime == 3
\* number of data rows of the raw tables load_responses is applied to
MaxRawRows == 3
\* the dashboard calls load_responses at most MaxLoads times in one behaviour
MaxLoads == 3

----------------------------------------------------------------------------
(* Schema registry *)

\* get_all_columns(): the registry restricted to the metadata columns, the
\* generated studio_name, one text answer, two structured answers, one
\* numeric answer and the position column.
columns ==
    <<"response_id", "schema_version", "submitted_at", "studio_name",
      "location_state", "wheel_inventory", "event_types", "current_members",
      "_sheet_row">>

\* the uuid4 values the model can draw
Uuids == {"ab12", "cd34"}

\* data['response_id'][:4].upper()
Upper4(id) == IF id = "ab12" THEN "AB12" ELSE IF id = "cd34" THEN "CD34" ELSE id

\* keys a record can carry that the registry does not have (a record keyed
\* by the header of a sheet that predates the registry)
ExtraKeys == {"legacy_note"}

\* answers the form stores for location_state
States == {"Ohio"}

\* the structured (dict) answer the form stores for wheel_inventory
Inventories == {"<dict BrentC:2>"}

\* the structured (list) answer the multiselect stores for event_types
EventTypes == {"<list Kids parties>"}

\* the list and dict values
Collections == Inventories \cup EventTypes

\* the numbers st.number_input stores for current_members: a count the
\* respondent entered, and the 0 the input starts from
Members == {"<int 12>"}
NoMembers == "<int 0>"

----------------------------------------------------------------------------
(* Python values *)

Range(s) == {s[i] : i \in 1..Len(s)}

EmptyDict == [k \in {} |-> ""]

\* d[k] = v
Put(d, k, v) == [x \in (DOMAIN d) \cup {k} |-> IF x = k THEN v ELSE d[x]]

\* d.get(k, default)
Get(d, k, default) == IF k \in DOMAIN d THEN d[k] ELSE default

\* {**a, **b}: the keys of b override those of a
Merge(a, b) ==
    [x \in (DOMAIN a) \cup (DOMAIN b) |-> IF x \in DOMAIN b THEN b[x] ELSE a[x]]

\* isinstance(v, (list, dict))
IsCollection(v) == v \in Collections

\* json.dumps(v) of a structured value
JsonDumps(v) ==
    IF v = "<dict BrentC:2>" THEN "{\"BrentC\": 2}"
    ELSE IF v = "<list Kids parties>" THEN "[\"Kids parties\"]"
    ELSE v

\* mutation: a number is true whatever its value
TruthyNonEmpty(v) == v # ""

\* bool(v): the empty string and the number 0 are false (None is held as "")
Truthy(v) == v \notin {"", NoMembers}

\* datetime.now().isoformat() of the n-th clock reading
IsoFormat(n) == "t" \o ToString(n)

\* pd.to_datetime(s, errors='coerce'): NaT when s is no timestamp
ParseTimestamp(s) ==
    IF \E n \in 1..MaxTime : IsoFormat(n) = s
    THEN [nat |-> FALSE, t |-> CHOOSE n \in 1..MaxTime : IsoFormat(n) = s]
    ELSE [nat |-> TRUE, t |-> 0]

\* headers.index(name), 1-based; 0 when name is not in headers
IndexOf(headers, name) ==
    IF name \in Range(headers)
    THEN CHOOSE i \in 1..Len(headers) :
            headers[i] = name /\ \A j \in 1..(i - 1) : headers[j] # name
    ELSE 0

----------------------------------------------------------------------------
(* Remote store: the calls of the Sheets API the code makes *)

\* a row as values().get() returns it: trailing empty cells are not sent
RECURSIVE TrimRow(_)
TrimRow(row) ==
    IF Len(row) = 0 THEN row
    ELSE IF row[Len(row)] = "" THEN TrimRow(SubSeq(row, 1, Len(row) - 1))
    ELSE row

\* a cell as values().get() returns it: the text the sheet shows, also for a
\* cell that holds a number
FormattedValue(v) ==
    IF v = NoMembers THEN "0" ELSE IF v = "<int 12>" THEN "12" ELSE v

\* service.spreadsheets().values().get(range="Sheet1").execute().get('values', [])
ValuesGet(table) ==
    [i \in 1..Len(table) |->
        TrimRow([c \in 1..Len(table[i]) |-> FormattedValue(table[i][c])])]

\* mutation: the table is never taken for empty
A1IsEmptyNever(table) == FALSE

\* values().get(range="Sheet1!A1:A1"): is_empty
A1IsEmpty(table) ==
    LET values == IF Len(table) = 0 \/ Len(TrimRow(table[1])) = 0
                  THEN <<>> ELSE <<SubSeq(table[1], 1, 1)>>
    IN  Len(values) = 0 \/ Len(values[1]) = 0

\* mutation: the row is added below the table instead of replacing a row
ValuesUpdateAppends(table, row_number, row) == Append(table, row)

\* mutation: the call leaves the table as it was
ValuesUpdateIgnored(table, row_number, row) == table

\* values().update(range="Sheet1!A{row_number}", body=[row]): full row replace
ValuesUpdate(table, row_number, row) ==
    IF row_number <= Len(table)
    THEN [table EXCEPT ![row_number] = row]
    ELSE table \o [i \in 1..(row_number - Len(table) - 1) |-> <<>>] \o <<row>>

\* values().append(range="Sheet1!A1", insertDataOption='INSERT_ROWS')
ValuesAppend(table, row) == Append(table, row)

----------------------------------------------------------------------------
(* Lookup: check_for_existing_response *)

\* the remote calls and the local file access of one save_response call that
\* can raise
Calls == {"auth", "lookup", "update", "hdrget", "hdrput", "append", "local"}

\* the calls that raise during one save_response call: the first remote call
\* that raises ends the try block, so at most one of them raises; the lookup
\* has its own try block and the local file access comes after
FailureSets ==
    {F \in SUBSET Calls :
        Cardinality(F \cap {"auth", "update", "hdrget", "hdrput", "append"}) <= 1}

NotFound == [exists |-> FALSE, row_number |-> 0]

\* lines 299-314: the scan of the rows read, first match wins
ScanForResponse(values, response_id) ==
    IF Len(values) < 2 THEN NotFound
    ELSE LET headers == values[1]
             response_id_col == IndexOf(headers, "response_id")
             hits == {idx \in 2..Len(values) :
                        /\ Len(values[idx]) >= response_id_col
                        /\ values[idx][response_id_col] = response_id}
         IN  IF response_id_col = 0 THEN NotFound
             ELSE IF hits = {} THEN NotFound
             ELSE [exists |-> TRUE,
                   row_number |-> CHOOSE idx \in hits : \A h \in hits : idx <= h]

\* check_for_existing_response: an exception of the read is swallowed and
\* reported as (False, None)
check_for_existing_response(table, response_id, F) ==
    IF "lookup" \in F THEN NotFound
    ELSE ScanForResponse(ValuesGet(table), response_id)

----------------------------------------------------------------------------
(* Record normalisation inside save_response *)

\* lines 335-339: {"schema_version": ..., "submitted_at": now, **data}
AddMetadata(data, n) ==
    Merge([schema_version |-> "v1.1", submitted_at |-> IsoFormat(n)], data)

\* line 341: flat
Flatten(data) ==
    [k \in DOMAIN data |->
        IF IsCollection(data[k]) THEN JsonDumps(data[k]) ELSE data[k]]

\* [flat.get(c, "") for c in columns]
FlatRow(flat) == [i \in 1..Len(columns) |-> Get(flat, columns[i], "")]

----------------------------------------------------------------------------
(* Local fallback: the except branch of save_response *)

\* mutation: the ids already in the file are not collected
DictReaderIdsNone(file) == {}

\* csv.DictReader over the file: the response_id values of its data rows
DictReaderIds(file) ==
    IF Len(file) = 0 THEN {}
    ELSE LET col == IndexOf(file[1], "response_id")
         IN  IF col = 0 THEN {}
             ELSE {file[i][col] : i \in {j \in 2..Len(file) :
                                            /\ Len(file[j]) >= col
                                            /\ file[j][col] # ""}}

\* csv.DictWriter(f, fieldnames=columns).writerow(flat) raises ValueError
\* when flat has a key that is not a fieldname
WriterowRaises(flat) == (DOMAIN flat) \ Range(columns) # {}

\* lines 396-421
LocalFallback(data, flat, F, table, file_exists, file, failed) ==
    LET existing_ids == IF file_exists THEN DictReaderIds(file) ELSE {}
        new_file == ~file_exists
        opened == IF new_file THEN <<columns>> ELSE file
        base == [sheet |-> table, csv_exists |-> file_exists, csv |-> file,
                 pos |-> 0, failed |-> failed]
    IN  IF "local" \in F
        THEN [base EXCEPT !.failed = failed \cup {"local"}]
                @@ [result |-> "Raised", ret |-> "raise"]
        ELSE IF data["response_id"] \in existing_ids
        THEN base @@ [result |-> "DuplicateLocal", ret |-> "False"]
        ELSE IF WriterowRaises(flat)
        THEN [base EXCEPT !.csv_exists = TRUE, !.csv = opened]
                @@ [result |-> "Raised", ret |-> "raise"]
        ELSE [base EXCEPT !.csv_exists = TRUE,
                          !.csv = Append(opened, FlatRow(flat)),
                          !.pos = Len(opened) + 1]
                @@ [result |-> "SavedLocally", ret |-> "True"]

----------------------------------------------------------------------------
(* Persistence: save_response *)

\* mutation: an id is generated whatever the input holds
EnsureResponseIdAlways(data, fresh) == Put(data, "response_id", fresh)

\* lines 330-332: an id is generated only for an input that has none
EnsureResponseId(data, fresh) ==
    IF "response_id" \notin DOMAIN data THEN Put(data, "response_id", fresh)
    ELSE data

\* lines 330-394, then the fallback: the new remote table, the new local
\* file and the outcome, for the calls in F raising and fresh the value
\* uuid4 would return
save_response(data0, fresh, n, F, table, file_exists, file) ==
    LET data == AddMetadata(EnsureResponseId(data0, fresh), n)
        flat == Flatten(data)
        row == FlatRow(flat)
        lf == IF "lookup" \in F THEN {"lookup"} ELSE {}
        found == check_for_existing_response(table, data["response_id"], F)
        is_empty == A1IsEmpty(table)
        withHeader == IF is_empty THEN ValuesUpdate(table, 1, columns) ELSE table
        remote(t, result, p) ==
            [sheet |-> t, csv_exists |-> file_exists, csv |-> file, pos |-> p,
             failed |-> lf, result |-> result, ret |-> "True"]
        fallback(t, failed) ==
            LocalFallback(data, flat, F, t, file_exists, file, failed)
        out ==
            IF "auth" \in F THEN fallback(table, {"auth"})
            ELSE IF found.exists /\ found.row_number # 0
            THEN IF "update" \in F THEN fallback(table, lf \cup {"update"})
                 ELSE remote(ValuesUpdate(table, found.row_number, row),
                             "Updated", found.row_number)
            ELSE IF "hdrget" \in F THEN fallback(table, lf \cup {"hdrget"})
            ELSE IF is_empty /\ "hdrput" \in F
            THEN fallback(table, lf \cup {"hdrput"})
            ELSE IF "append" \in F THEN fallback(withHeader, lf \cup {"append"})
            ELSE remote(ValuesAppend(withHeader, row), "Inserted",
                        Len(withHeader) + 1)
    IN  out @@ [op |-> "save_response", rid |-> data["response_id"],
                row |-> row]

----------------------------------------------------------------------------
(* Resume by identifier: load_response_by_id, and update_response *)

\* json.loads(text); text that is not JSON raises and the cell is kept
JsonLoads(text) ==
    IF text = "{\"BrentC\": 2}" THEN "<dict BrentC:2>"
    ELSE IF text = "[\"Kids parties\"]" THEN "<list Kids parties>"
    ELSE text

\* the columns load_response_by_id parses back (json_cols), of the columns
\* modelled
json_cols == {"wheel_inventory"}

\* lines 424-473: None is [found |-> FALSE]
load_response_by_id(table, response_id, fails) ==
    LET values == ValuesGet(table)
        hit == ScanForResponse(values, response_id)
        headers == values[1]
        row == values[hit.row_number]
        cells == [h \in Range(headers) |->
                    LET i == IndexOf(headers, h)
                    IN  IF i <= Len(row) THEN row[i] ELSE ""]
        located == Put(cells, "_sheet_row", ToString(hit.row_number))
        parsed == [k \in DOMAIN located |->
                     IF k \in json_cols /\ located[k] # ""
                     THEN JsonLoads(located[k]) ELSE located[k]]
    IN  IF fails \/ ~hit.exists
        THEN [found |-> FALSE, data |-> EmptyDict]
        ELSE [found |-> TRUE, data |-> parsed]

\* int value of a stored position
RowOf(s, table) ==
    IF \E i \in 1..Len(table) : ToString(i) = s
    THEN CHOOSE i \in 1..Len(table) : ToString(i) = s
    ELSE 0

\* lines 475-509: the record as mutated, the new table and the outcome
update_response(data0, n, F, table) ==
    LET row_number == RowOf(Get(data0, "_sheet_row", ""), table)
        data == Put(data0, "submitted_at", IsoFormat(n))
        row == FlatRow(Flatten(data))
        base == [op |-> "update_response", rid |-> Get(data0, "response_id", ""),
                 row |-> row, pos |-> row_number]
    IN  IF row_number = 0 \/ "auth" \in F
        THEN base @@ [sheet |-> table, data |-> data0, result |-> "Failed",
                      ret |-> "False", failed |-> F \cap {"auth"}]
        ELSE IF "update" \in F
        THEN base @@ [sheet |-> table, data |-> data, result |-> "Failed",
                      ret |-> "False", failed |-> {"update"}]
        ELSE base @@ [sheet |-> ValuesUpdate(table, row_number, row),
                      data |-> data, result |-> "Updated", ret |-> "True",
                      failed |-> {}]

----------------------------------------------------------------------------
(* Load-time reconciliation: load_responses *)

\* mutation: short rows are padded, long rows are kept as they are
NormalizeRowNoTrim(row, width) ==
    row \o [i \in 1..(width - Len(row)) |-> ""]

\* lines 47-55: pad short rows, trim long rows
NormalizeRow(row, width) ==
    [i \in 1..width |-> IF i <= Len(row) THEN row[i] ELSE ""]

\* the positions 1..n in an order
Orders(n) == {p \in [1..n -> 1..n] : \A i, j \in 1..n : p[i] = p[j] => i = j}

\* mutation: the sort is descending
SortsBeforeDescending(a, b) == ~a.nat /\ (b.nat \/ a.t > b.t)

\* sort_values('_timestamp'): ascending, NaT after every timestamp
SortsBefore(a, b) == ~a.nat /\ (b.nat \/ a.t < b.t)

\* df.sort_values('_timestamp') with the default kind (quicksort, which is
\* not stable): every order of the rows that is ascending in the key; the
\* NaT rows are appended in their original order
SortOrders(keys) ==
    {p \in Orders(Len(keys)) :
        \A i, j \in 1..Len(keys) :
            i < j => /\ ~SortsBefore(keys[p[j]], keys[p[i]])
                     /\ (keys[p[i]].nat /\ keys[p[j]].nat => p[i] < p[j])}

\* mutation: the duplicates are not dropped
DropDuplicatesSkipped(rows, col) == rows

\* mutation: keep='first'
DropDuplicatesKeepFirst(rows, col) ==
    SelectSeq(rows, LAMBDA r :
        \E i \in 1..Len(rows) :
            /\ rows[i] = r
            /\ \A j \in 1..(i - 1) : rows[j][col] # r[col])

\* drop_duplicates(subset=['response_id'], keep='last')
DropDuplicatesKeepLast(rows, col) ==
    LET keep == {i \in 1..Len(rows) :
                    \A j \in (i + 1)..Len(rows) : rows[j][col] # rows[i][col]}
        F[i \in 0..Len(rows)] ==
            IF i = 0 THEN <<>>
            ELSE IF i \in keep THEN Append(F[i - 1], rows[i]) ELSE F[i - 1]
    IN  F[Len(rows)]

\* pd.DataFrame(), with the st.* messages shown on the way to it
NoData(status, messages) ==
    [status |-> status, header |-> <<>>, rows |-> <<>>,
     original_count |-> 0, missing_id_count |-> 0, duplicate_count |-> 0,
     messages |-> messages]

\* mutation: the handler returns the empty dataset without a message
OnExceptionSilent == {NoData("error", {})}

\* lines 121-123: the except branch, st.error and pd.DataFrame()
OnException == {NoData("error", {"error"})}

\* mutation: the rows without id are reported as an error
LoadMessagesAsError(original_count, missing_id_count, duplicate_count, final_count) ==
    IF missing_id_count > 0 THEN {"error"} ELSE {}

\* lines 85-86, 104-105, 116-117: the messages of a load that returns rows
LoadMessages(original_count, missing_id_count, duplicate_count, final_count) ==
    (IF missing_id_count > 0 THEN {"warning"} ELSE {})
        \cup (IF duplicate_count > 0 THEN {"info"} ELSE {})
        \cup (IF original_count # final_count THEN {"caption"} ELSE {})

\* lines 27-123: every dataset load_responses can return for the table
load_responses(table, fails) ==
    LET values == ValuesGet(table)
        header == values[1]
        width == Len(header)
        normalized == [i \in 1..(Len(values) - 1) |->
                          NormalizeRow(values[i + 1], width)]
        id_col == IndexOf(header, "response_id")
        ts_col == IndexOf(header, "submitted_at")
        withId == SelectSeq(normalized, LAMBDA r : r[id_col] # "")
        keys == [i \in 1..Len(withId) |->
                    IF ts_col = 0 THEN [nat |-> FALSE, t |-> 0]
                    ELSE ParseTimestamp(withId[i][ts_col])]
    IN  IF fails THEN OnException
        ELSE IF Len(values) < 2 THEN {NoData("empty", {})}
        ELSE IF id_col = 0 THEN {NoData("no_response_id", {"error"})}
        ELSE {LET sorted == [i \in 1..Len(withId) |-> withId[p[i]]]
                  kept == DropDuplicatesKeepLast(sorted, id_col)
              IN  [status |-> "ok", header |-> header, rows |-> kept,
                   original_count |-> Len(normalized),
                   missing_id_count |-> Len(normalized) - Len(withId),
                   duplicate_count |-> Len(sorted) - Len(kept),
                   messages |-> LoadMessages(Len(normalized),
                                             Len(normalized) - Len(withId),
                                             Len(sorted) - Len(kept),
                                             Len(kept))]
              : p \in SortOrders(keys)}

----------------------------------------------------------------------------
(* State machine *)

\* the callers of save_response that can run at the same time (two browser
\* sessions served by the same process)
Procs == {1, 2}

\* a caller that is not inside save_response
IdleSave ==
    [pc |-> "idle", rid |-> "", row |-> <<>>, row_number |-> 0,
     is_empty |-> FALSE, result |-> "", order |-> 0]

NoSaves == [p \in Procs |-> IdleSave]

\* st.cache_data holds nothing for load_responses
NoEntry == [valid |-> FALSE, value |-> NoData("none", {})]

NoOp ==
    [op |-> "none", rid |-> "", result |-> "", ret |-> "", pos |-> 0,
     row |-> <<>>, failed |-> {}, message |-> "", errors |-> {}]

Init ==
    /\ sheet = <<>>
    /\ csv_exists = FALSE
    /\ csv = <<>>
    /\ now = 0
    /\ issued = {}
    /\ survey_data = EmptyDict
    /\ is_update = FALSE
    /\ last = NoOp
    /\ df = NoData("none", {})
    /\ cache = NoEntry
    /\ loads = [calls |-> 0, reads |-> 0]
    /\ saves = NoSaves

\* init_session_state in a new browser session
NewSession ==
    /\ survey_data # EmptyDict
    /\ survey_data' = EmptyDict
    /\ is_update' = FALSE
    /\ UNCHANGED <<sheet, csv_exists, csv, now, issued, last, df, cache, loads,
                   saves>>

\* render_survey, lines 604-608: the id is generated once per record
RenderSurvey ==
    /\ "response_id" \notin DOMAIN survey_data
    /\ \E id \in Uuids \ issued :
        /\ survey_data' =
              Put(Put(survey_data, "response_id", id), "studio_name", Upper4(id))
        /\ issued' = issued \cup {id}
    /\ UNCHANGED <<sheet, csv_exists, csv, now, is_update, last, df,
                   cache, loads, saves>>

\* the answers one pass through the sections of the form stores
\* what the profile section stores, and what the record holds once the
\* equipment and pricing sections were filled in as well
ProfileAnswers ==
    {[location_state |-> v, current_members |-> m] :
        v \in States, m \in Members}

Answers ==
    ProfileAnswers
    \cup {Merge(a, [wheel_inventory |-> c, event_types |-> e]) :
            a \in ProfileAnswers, c \in Inventories, e \in EventTypes}

\* render_section_*: data[field] = answer, for the fields of the sections
FillForm ==
    /\ "response_id" \in DOMAIN survey_data
    /\ \E a \in Answers :
        /\ Merge(survey_data, a) # survey_data
        /\ survey_data' = Merge(survey_data, a)
    /\ UNCHANGED <<sheet, csv_exists, csv, now, issued, is_update, last, df,
                   cache, loads, saves>>

\* render_intro, lines 586-592: resume a previous response by its id
ResumeById ==
    \E id \in Uuids, fails \in BOOLEAN :
        \E previous_data \in {load_response_by_id(sheet, id, fails)} :
            /\ survey_data' =
                  IF previous_data.found THEN previous_data.data ELSE survey_data
            /\ is_update' = IF previous_data.found THEN TRUE ELSE is_update
            /\ UNCHANGED <<sheet, csv_exists, csv, now, issued, last, df,
                           cache, loads, saves>>

FailedToSave == "Failed to save response. Please try again or contact support."

\* submit_survey, lines 2671-2691: the message shown for what save_response
\* returned; an exception of save_response leaves submit_survey before any
\* message
SubmitMessage(ret, was_update) ==
    IF ret = "True"
    THEN IF was_update THEN "Survey updated successfully!"
         ELSE "Survey submitted successfully!"
    ELSE IF ret = "False" THEN FailedToSave
    ELSE ""

\* the values uuid4 can return to a save of data: none is drawn when data
\* has an id
FreshIds(data) == IF "response_id" \in DOMAIN data THEN {""} ELSE Uuids \ issued

\* submit_survey, lines 2662-2691, calling save_response on survey_data; a
\* record can carry keys the registry does not have. The form is submitted
\* from render_survey, after lines 604-608 have given the record its id.
\* lines 932-938: the member count is left at, or set back to, 0
ZeroMembers ==
    /\ "response_id" \in DOMAIN survey_data
    /\ Get(survey_data, "current_members", "") # NoMembers
    /\ survey_data' = Put(survey_data, "current_members", NoMembers)
    /\ UNCHANGED <<sheet, csv_exists, csv, now, issued, is_update, last, df,
                   cache, loads, saves>>

\* submit_survey, lines 2638-2648: the required fields the registry of the
\* model has
required_fields == {"location_state", "current_members"}

\* line 2650: the fields for which not data.get(field)
MissingRequired(data) == {f \in required_fields : ~Truthy(Get(data, f, ""))}

\* submit_survey, lines 2650-2656: a required field is missing
SubmitIncomplete ==
    /\ "response_id" \in DOMAIN survey_data
    /\ MissingRequired(survey_data) # {}
    /\ last' = [NoOp EXCEPT !.op = "submit_survey",
                            !.message = "Please complete required fields:",
                            !.errors = MissingRequired(survey_data)]
    /\ UNCHANGED <<sheet, csv_exists, csv, now, issued, survey_data, is_update,
                   df, cache, loads, saves>>

\* submit_survey, lines 2658-2691: every required field is there
Submit ==
    /\ now < MaxTime
    /\ "response_id" \in DOMAIN survey_data
    /\ MissingRequired(survey_data) = {}
    /\ \E F \in FailureSets, extra \in SUBSET ExtraKeys,
          fresh \in FreshIds(survey_data) :
        \E out \in {save_response(Merge(survey_data, [k \in extra |-> "old"]),
                                  fresh, now + 1, F, sheet, csv_exists, csv)} :
            /\ sheet' = out.sheet
            /\ csv_exists' = out.csv_exists
            /\ csv' = out.csv
            /\ last' = [op |-> out.op, rid |-> out.rid, result |-> out.result,
                        ret |-> out.ret, pos |-> out.pos, row |-> out.row,
                        failed |-> out.failed,
                        message |-> SubmitMessage(out.ret, is_update),
                        errors |-> {}]
            /\ is_update' = IF out.ret = "True" THEN FALSE ELSE is_update
    /\ now' = now + 1
    /\ UNCHANGED <<issued, survey_data, df, cache, loads, saves>>

\* update_response on survey_data
UpdateResponse ==
    /\ now < MaxTime
    /\ "response_id" \in DOMAIN survey_data
    /\ \E F \in SUBSET {"auth", "update"} :
        \E out \in {update_response(survey_data, now + 1, F, sheet)} :
            /\ sheet' = out.sheet
            /\ survey_data' = out.data
            /\ last' = [op |-> out.op, rid |-> out.rid, result |-> out.result,
                        ret |-> out.ret, pos |-> out.pos, row |-> out.row,
                        failed |-> out.failed, message |-> "",
                        errors |-> {}]
            /\ now' = IF out.data = survey_data THEN now ELSE now + 1
    /\ UNCHANGED <<csv_exists, csv, issued, is_update, df, cache, loads, saves>>

Next ==
    \/ NewSession
    \/ RenderSurvey
    \/ FillForm
    \/ ResumeById
    \/ SubmitIncomplete
    \/ Submit
    \/ UpdateResponse

Spec == Init /\ [][Next]_vars

\* the survey page with the member count that can go back to 0
NextForm ==
    \/ RenderSurvey
    \/ FillForm
    \/ ZeroMembers
    \/ ResumeById
    \/ SubmitIncomplete
    \/ Submit

SpecForm == Init /\ [][NextForm]_vars

----------------------------------------------------------------------------
(* The survey over a sheet its owner can clear *)

\* the owner of the spreadsheet clears Sheet1; lines 367-384 check for the
\* header anew on every insert because of it
ExternalReset ==
    /\ sheet # <<>>
    /\ sheet' = <<>>
    /\ UNCHANGED <<csv_exists, csv, now, issued, survey_data, is_update, last,
                   df, cache, loads, saves>>

NextReset ==
    \/ Next
    \/ ExternalReset

SpecReset == Init /\ [][NextReset]_vars

----------------------------------------------------------------------------
(* Reconciliation applied to arbitrary raw tables *)

\* the cells of the raw rows: an id (or none), a timestamp (or text that is
\* none), the studio_name of the id and an answer
RawIds == Uuids \cup {""}
RawTimestamps == {IsoFormat(1), IsoFormat(2), "garbled"}
RawStates == {"Ohio", "Utah"}

\* rows of header width; one row stands for the rows without id, and the
\* second location comes with the first timestamp only
FullRows ==
    {r \in {<<id, "v1.1", ts, Upper4(id), state, "", "", "", "">> :
                id \in RawIds, ts \in RawTimestamps, state \in RawStates} :
        /\ r[1] = "" => (r[3] = IsoFormat(1) /\ r[5] = "Ohio")
        /\ r[5] = "Utah" => r[3] = IsoFormat(1)}

\* a blank row, a row that ends after its id, and a row with a cell to the
\* right of the last header column
RaggedRows ==
    {<<>>, <<"ab12">>,
     <<"cd34", "v1.1", IsoFormat(2), "CD34", "Utah", "", "", "", "",
       "overflow">>}

RawRows == FullRows \cup RaggedRows

\* the header of a sheet whose identifier column has another name
LegacyHeader == [columns EXCEPT ![1] = "id"]

\* the header of a sheet that has no submitted_at column
UntimedHeader == [columns EXCEPT ![3] = "notes"]

RawHeaders == {columns, LegacyHeader, UntimedHeader}

\* the rows put under a header that has no submitted_at or no response_id
\* column: what their third cell holds plays no part there
VariantRows == {r \in RawRows : Len(r) >= 3 => r[3] = IsoFormat(1)}

\* an empty sheet, or a header followed by up to MaxRawRows rows
RawTables ==
    {<<>>}
    \cup {<<columns>> \o rows :
            rows \in UNION {[1..n -> RawRows] : n \in 0..MaxRawRows}}
    \cup {<<header>> \o rows :
            header \in RawHeaders \ {columns},
            rows \in UNION {[1..n -> VariantRows] : n \in 0..MaxRawRows}}

InitLoad ==
    /\ sheet \in RawTables
    /\ csv_exists = FALSE
    /\ csv = <<>>
    /\ now = 0
    /\ issued = {}
    /\ survey_data = EmptyDict
    /\ is_update = FALSE
    /\ last = NoOp
    /\ df = NoData("none", {})
    /\ cache = NoEntry
    /\ loads = [calls |-> 0, reads |-> 0]
    /\ saves = NoSaves

\* render_results: the dashboard loads the canonical view
LoadResponses ==
    /\ \E fails \in BOOLEAN : df' \in load_responses(sheet, fails)
    /\ UNCHANGED <<sheet, csv_exists, csv, now, issued, survey_data, is_update,
                   last, cache, loads, saves>>

NextLoad == LoadResponses

SpecLoad == InitLoad /\ [][NextLoad]_vars

----------------------------------------------------------------------------
(* save_response calls running side by side: every remote call is a step *)

\* the id both callers save under, and the records they save
SharedId == "ab12"
ConcRecords ==
    {Put(Put(EmptyDict, "response_id", SharedId), "studio_name",
         Upper4(SharedId)),
     Merge(Put(Put(EmptyDict, "response_id", SharedId), "studio_name",
               Upper4(SharedId)),
           [location_state |-> "Ohio"])}

\* the row an earlier save_response wrote for id at the first clock reading
StoredRow(id) ==
    FlatRow(Flatten(AddMetadata(
        Put(Put(EmptyDict, "response_id", id), "studio_name", Upper4(id)), 1)))

\* the tables the two calls start from: empty, header only, holding another
\* response, holding the shared id, holding both
ConcTables ==
    {<<>>, <<columns>>, <<columns, StoredRow("cd34")>>,
     <<columns, StoredRow(SharedId)>>,
     <<columns, StoredRow(SharedId), StoredRow("cd34")>>}

InitConc ==
    /\ sheet \in ConcTables
    /\ csv_exists = FALSE
    /\ csv = <<>>
    /\ now = IF Len(sheet) >= 2 THEN 1 ELSE 0
    /\ issued = Uuids
    /\ survey_data = EmptyDict
    /\ is_update = FALSE
    /\ last = NoOp
    /\ df = NoData("none", {})
    /\ cache = NoEntry
    /\ loads = [calls |-> 0, reads |-> 0]
    /\ saves = NoSaves

\* the number of callers whose last remote write is done
Finished == Cardinality({q \in Procs : saves[q].pc = "done"})

\* lines 330-350: the record gets its metadata and is flattened
SaveStart ==
    \E p \in Procs, data \in ConcRecords :
        /\ saves[p].pc = "idle"
        /\ now < MaxTime
        /\ now' = now + 1
        /\ saves' = [saves EXCEPT ![p] =
              [@ EXCEPT !.pc = "lookup",
                        !.rid = data["response_id"],
                        !.row = FlatRow(Flatten(AddMetadata(
                                    EnsureResponseId(data, ""), now + 1)))]]
        /\ UNCHANGED <<sheet, csv_exists, csv, issued, survey_data, is_update,
                       last, df, cache, loads>>

\* line 353: check_for_existing_response reads the table
SaveLookup ==
    \E p \in Procs :
        \E found \in {check_for_existing_response(sheet, saves[p].rid, {})} :
            /\ saves[p].pc = "lookup"
            /\ saves' = [saves EXCEPT ![p] =
                  [@ EXCEPT !.pc = IF found.exists /\ found.row_number # 0
                                   THEN "update" ELSE "hdrget",
                            !.row_number = found.row_number]]
            /\ UNCHANGED <<sheet, csv_exists, csv, now, issued, survey_data,
                           is_update, last, df, cache, loads>>

\* lines 355-365: values().update on the row found
SaveUpdate ==
    \E p \in Procs :
        /\ saves[p].pc = "update"
        /\ sheet' = ValuesUpdate(sheet, saves[p].row_number, saves[p].row)
        /\ saves' = [saves EXCEPT ![p] =
              [@ EXCEPT !.pc = "done", !.result = "Updated",
                        !.order = Finished + 1]]
        /\ UNCHANGED <<csv_exists, csv, now, issued, survey_data, is_update,
                       last, df, cache, loads>>

\* lines 367-374: values().get on A1:A1
SaveHeaderGet ==
    \E p \in Procs :
        /\ saves[p].pc = "hdrget"
        /\ saves' = [saves EXCEPT ![p] =
              [@ EXCEPT !.pc = IF A1IsEmpty(sheet) THEN "hdrput" ELSE "append",
                        !.is_empty = A1IsEmpty(sheet)]]
        /\ UNCHANGED <<sheet, csv_exists, csv, now, issued, survey_data,
                       is_update, last, df, cache, loads>>

\* lines 376-383: values().update of the header at A1
SaveHeaderPut ==
    \E p \in Procs :
        /\ saves[p].pc = "hdrput"
        /\ sheet' = ValuesUpdate(sheet, 1, columns)
        /\ saves' = [saves EXCEPT ![p] = [@ EXCEPT !.pc = "append"]]
        /\ UNCHANGED <<csv_exists, csv, now, issued, survey_data, is_update,
                       last, df, cache, loads>>

\* lines 385-394: values().append
SaveAppend ==
    \E p \in Procs :
        /\ saves[p].pc = "append"
        /\ sheet' = ValuesAppend(sheet, saves[p].row)
        /\ saves' = [saves EXCEPT ![p] =
              [@ EXCEPT !.pc = "done", !.result = "Inserted",
                        !.row_number = Len(sheet) + 1,
                        !.order = Finished + 1]]
        /\ UNCHANGED <<csv_exists, csv, now, issued, survey_data, is_update,
                       last, df, cache, loads>>

NextConc ==
    \/ SaveStart
    \/ SaveLookup
    \/ SaveUpdate
    \/ SaveHeaderGet
    \/ SaveHeaderPut
    \/ SaveAppend
    \/ LoadResponses

SpecConc == InitConc /\ [][NextConc]_vars

----------------------------------------------------------------------------
(* The dashboard over the cached load_responses *)

\* mutation: no entry is taken for fresh
CacheNeverFresh(entry) == FALSE

\* @st.cache_data(ttl=900): the entry is used while it is there
CacheFresh(entry) == entry.valid

\* render_results, line 173: load_responses through st.cache_data; the body
\* runs, and reads the sheet, only when there is no fresh entry, and what it
\* returns (the empty dataset of a failed read included) becomes the entry
LoadCached ==
    /\ loads.calls < MaxLoads
    /\ \E fails \in BOOLEAN :
          df' \in IF CacheFresh(cache) THEN {cache.value}
                  ELSE load_responses(sheet, fails)
    /\ cache' = IF CacheFresh(cache) THEN cache
                ELSE [valid |-> TRUE, value |-> df']
    /\ loads' = [calls |-> loads.calls + 1,
                 reads |-> IF CacheFresh(cache) THEN loads.reads
                           ELSE loads.reads + 1]
    /\ UNCHANGED <<sheet, csv_exists, csv, now, issued, survey_data, is_update,
                   last, saves>>

\* ttl=900: the entry is dropped 15 minutes after it was stored
ExpireCache ==
    /\ cache.valid
    /\ cache' = NoEntry
    /\ UNCHANGED <<sheet, csv_exists, csv, now, issued, survey_data, is_update,
                   last, df, loads, saves>>

\* render_results, lines 175-180 and 261-263: the Refresh button, which is
\* drawn only below a dataset that is not empty; st.rerun() ends the run and
\* the next run of render_results loads
RefreshData ==
    /\ df.rows # <<>>
    /\ cache.valid
    /\ cache' = NoEntry
    /\ UNCHANGED <<sheet, csv_exists, csv, now, issued, survey_data, is_update,
                   last, df, loads, saves>>

\* one respondent filling and submitting the survey while the dashboard is
\* viewed
NextCache ==
    \/ RenderSurvey
    \/ FillForm
    \/ SubmitIncomplete
    \/ Submit
    \/ LoadCached
    \/ ExpireCache
    \/ RefreshData

SpecCache == Init /\ [][NextCache]_vars

----------------------------------------------------------------------------
(* Properties of the canonical view *)

IdCol == IndexOf(columns, "response_id")
TsCol == IndexOf(columns, "submitted_at")
StateCol == IndexOf(columns, "location_state")

\* the data rows of a table as load_responses sees them, header width
RawDataRows(table) ==
    LET values == ValuesGet(table)
    IN  IF Len(values) < 2 THEN {}
        ELSE {NormalizeRow(values[i], Len(values[1])) : i \in 2..Len(values)}

\* the raw rows of the sheet that carry response_id id
Group(table, id) == {r \in RawDataRows(table) : r[IdCol] = id}

\* C1: in the dataset load_responses returns, every response_id occurs in
\* exactly one row and no row has an empty response_id, whatever the raw
\* table holds.
C1_OneRowPerId ==
    /\ \A i, j \in 1..Len(df.rows) :
          df.rows[i][IdCol] = df.rows[j][IdCol] => i = j
    /\ \A i \in 1..Len(df.rows) : df.rows[i][IdCol] # ""
    /\ df.status = "ok" =>
          \A r \in RawDataRows(sheet) :
              r[IdCol] # "" =>
                  \E i \in 1..Len(df.rows) : df.rows[i][IdCol] = r[IdCol]

\* the positions of the rows of the sheet that have the width of the registry
FullWidth == {i \in 2..Len(sheet) : Len(sheet[i]) = Len(columns)}

\* a load over a table that holds an id twice and a row without id
C1_Witness ==
    /\ df.status = "ok"
    /\ Len(df.rows) >= 1
    /\ \E i, j \in FullWidth :
          i # j /\ sheet[i][IdCol] = sheet[j][IdCol] /\ sheet[i][IdCol] # ""
    /\ \E i \in FullWidth : sheet[i][IdCol] = ""

\* C5 (as claimed): in a table with a submitted_at column, for a response_id
\* that has a row with a valid timestamp, the row load_responses keeps is
\* never one with a malformed submitted_at.
C5_MalformedNeverWins ==
    (df.status = "ok" /\ IndexOf(df.header, "submitted_at") = TsCol) =>
        \A i \in 1..Len(df.rows) :
            (\E g \in Group(sheet, df.rows[i][IdCol]) :
                ~ParseTimestamp(g[TsCol]).nat)
                => ~ParseTimestamp(df.rows[i][TsCol]).nat

\* C6: when the table has a submitted_at column and all timestamps of a
\* response_id parse, the row kept for it is one of its raw rows and no raw
\* row of the id has a later timestamp.
C6_KeepsMaximum ==
    (df.status = "ok" /\ IndexOf(df.header, "submitted_at") = TsCol) =>
        \A i \in 1..Len(df.rows) :
            LET group == Group(sheet, df.rows[i][IdCol])
            IN  (\A g \in group : ~ParseTimestamp(g[TsCol]).nat) =>
                    /\ df.rows[i] \in group
                    /\ \A g \in group :
                          ParseTimestamp(g[TsCol]).t
                              <= ParseTimestamp(df.rows[i][TsCol]).t

\* a load over a table where the later timestamp of an id stands first
C6_Witness ==
    /\ df.status = "ok"
    /\ sheet[1] = columns
    /\ \E i, j \in FullWidth :
          /\ i < j
          /\ sheet[i][IdCol] = sheet[j][IdCol]
          /\ sheet[i][IdCol] # ""
          /\ ~ParseTimestamp(sheet[i][TsCol]).nat
          /\ ~ParseTimestamp(sheet[j][TsCol]).nat
          /\ ParseTimestamp(sheet[j][TsCol]).t < ParseTimestamp(sheet[i][TsCol]).t
          /\ \E k \in 1..Len(df.rows) : df.rows[k] = sheet[i]

----------------------------------------------------------------------------
(* Properties of save_response *)

RemoteCalls == Calls \ {"local"}

\* the response_ids of the data rows of the remote table
RemoteIds(table) ==
    {ValuesGet(table)[i][IdCol] :
        i \in {j \in 2..Len(table) : Len(ValuesGet(table)[j]) >= IdCol}}

\* the last call was a save_response that reported success
SaveSucceeded == last.op = "save_response" /\ last.ret = "True"

\* the last call was a save_response that wrote a remote row
WroteRemote == last.op = "save_response" /\ last.result \in {"Updated", "Inserted"}

\* C2 (as claimed): a response_id is never stored both in the remote table
\* and in the local file, and after a save that reports success its
\* response_id is stored in one of them.
C2_ExactlyOneTarget ==
    /\ \A id \in Uuids : ~(id \in RemoteIds(sheet) /\ id \in DictReaderIds(csv))
    /\ SaveSucceeded => last.rid \in RemoteIds(sheet) \cup DictReaderIds(csv)

\* C3 (as claimed): when a remote call of save_response raises, the call
\* takes the local fallback path and writes no remote row.
C3_FailureFallsBack ==
    (last.op = "save_response" /\ last.failed \cap RemoteCalls # {})
        => ~WroteRemote

\* C4 (as claimed): the remote table never holds two rows with the same
\* response_id.
C4_NoRemoteDuplicates ==
    \A i, j \in 2..Len(sheet) :
        (sheet[i][IdCol] = sheet[j][IdCol] /\ sheet[i][IdCol] # "") => i = j

\* C7 (as claimed): the row a successful save_response writes carries the
\* submitted_at of the clock reading of that call.
C7_TimestampRefreshed ==
    SaveSucceeded => last.row[TsCol] = IsoFormat(now)

\* the answers of a row
AnswersOf(row) == <<row[StateCol], row[IndexOf(columns, "wheel_inventory")]>>

\* C8 (as claimed): after a save_response that wrote a remote row, the
\* canonical view of the table holds exactly one row for that response_id
\* and it carries the answers of that save (for at least one of the orders
\* the sort of load_responses can produce).
C8_LastPersistCanonical ==
    WroteRemote =>
        \E view \in load_responses(sheet, FALSE) :
            /\ view.status = "ok"
            /\ \E i \in 1..Len(view.rows) :
                  /\ view.rows[i][IdCol] = last.rid
                  /\ AnswersOf(view.rows[i]) = AnswersOf(last.row)
                  /\ \A j \in 1..Len(view.rows) :
                        view.rows[j][IdCol] = last.rid => j = i

\* the data rows of the local file that carry response_id id
LocalRowsOf(file, id) ==
    {i \in 2..Len(file) : Len(file[i]) >= IdCol /\ file[i][IdCol] = id}

\* C9: a save_response call leaves the local file with at most one data row
\* per response_id; a fallback write for an id the file already holds is
\* refused and leaves the file unchanged, and a row is appended only for an
\* id the file did not hold.
C9_LocalFallbackDedup ==
    [][(now' # now /\ last'.op = "save_response") =>
        /\ \A id \in Uuids : Cardinality(LocalRowsOf(csv', id)) <= 1
        /\ last'.result = "DuplicateLocal" =>
              /\ LocalRowsOf(csv, last'.rid) # {}
              /\ csv' = csv /\ csv_exists' = csv_exists
              /\ last'.ret = "False"
        /\ last'.result = "SavedLocally" =>
              /\ LocalRowsOf(csv, last'.rid) = {}
              /\ Len(csv') = IF csv_exists THEN Len(csv) + 1 ELSE 2
        /\ last'.result \notin {"DuplicateLocal", "SavedLocally"} =>
              \A i \in 2..Len(csv) : i <= Len(csv') /\ csv'[i] = csv[i]]_vars

\* a fallback write was refused for an id the local file holds once
C9_Witness ==
    /\ last.op = "save_response"
    /\ last.result = "DuplicateLocal"
    /\ Cardinality(LocalRowsOf(csv, last.rid)) = 1

\* C10 (as claimed): every row save_response writes, remote or local, has the
\* registry columns in registry order, and a key of the input that is not in
\* the registry never makes the write fail.
C10_RegistryRows ==
    /\ \A i \in 2..Len(sheet) : Len(sheet[i]) = Len(columns)
    /\ \A i \in 2..Len(csv) : Len(csv[i]) = Len(columns)
    /\ (last.op = "save_response" /\ "local" \notin last.failed)
          => last.result # "Raised"

----------------------------------------------------------------------------
(* Properties of the round trip through save_response and load_response_by_id *)

\* the step is a save_response call that wrote a remote row
RemoteSaveStep ==
    /\ now' # now
    /\ last'.op = "save_response"
    /\ last'.result \in {"Updated", "Inserted"}

\* C11 (as claimed): after save_response has written a record remotely,
\* load_response_by_id for its response_id returns every list or dict value
\* of the record as the same list or dict, not as its serialized text.
C11_StructuredRoundTrip ==
    [][RemoteSaveStep =>
        LET loaded == load_response_by_id(sheet', last'.rid, FALSE)
        IN  /\ loaded.found
            /\ \A k \in DOMAIN survey_data :
                  IsCollection(survey_data[k]) =>
                      /\ k \in DOMAIN loaded.data
                      /\ loaded.data[k] = survey_data[k]]_vars

----------------------------------------------------------------------------
(* Properties of the outcomes reported to the caller and to the user *)

\* C12 (as claimed): for a remote table that holds rows and an id none of
\* them carries, each of the two lookups returns something else when its
\* read of the table raises than when the read succeeds and finds no row.
C12_NotFoundDistinct ==
    \A id \in Uuids :
        (Len(sheet) >= 2 /\ ScanForResponse(ValuesGet(sheet), id) = NotFound) =>
            /\ check_for_existing_response(sheet, id, {"lookup"})
                  # check_for_existing_response(sheet, id, {})
            /\ load_response_by_id(sheet, id, TRUE)
                  # load_response_by_id(sheet, id, FALSE)

\* C13 (as claimed): when save_response skips the local write because the
\* local file already holds the response_id, submit_survey does not show the
\* message of a failed save.
C13_DuplicateNotFailure ==
    (last.op = "save_response" /\ last.result = "DuplicateLocal")
        => last.message # FailedToSave

\* C14 (as claimed): no exception leaves save_response, and when the remote
\* write and the local write both fail submit_survey shows the message of a
\* failed save.
C14_FailureReported ==
    last.op = "save_response" =>
        /\ last.ret # "raise"
        /\ "local" \in last.failed => last.message = FailedToSave

----------------------------------------------------------------------------
(* Properties of the failure paths of load_responses *)

\* the table as the last load read it has no response_id column
NoIdColumn ==
    /\ Len(ValuesGet(sheet)) >= 2
    /\ IndexOf(ValuesGet(sheet)[1], "response_id") = 0

\* C15 (as claimed): a load whose read failed, or that read fewer than two
\* rows, or a table without response_id column, returns the empty dataset
\* and shows a message.
C15_EmptyAndSignalled ==
    (df.status # "none" /\ (df.status = "error" \/ Len(ValuesGet(sheet)) < 2
                                \/ NoIdColumn))
        => df.rows = <<>> /\ df.header = <<>> /\ df.messages # {}

\* C15 (amended): load_responses always returns a dataset; it is the empty
\* dataset with an error message when the read failed or the table has no
\* response_id column, and the empty dataset without any message when the
\* table has fewer than two rows.
C15_EmptyOnFailure ==
    df.status # "none" =>
        /\ df.status \in {"error", "empty", "no_response_id", "ok"}
        /\ df.status # "ok" => df.rows = <<>> /\ df.header = <<>>
        /\ df.status = "error" => df.messages = {"error"}
        /\ df.status # "error" =>
              /\ Len(ValuesGet(sheet)) < 2 <=> df.status = "empty"
              /\ Len(ValuesGet(sheet)) < 2 => df.messages = {}
              /\ NoIdColumn <=> df.status = "no_response_id"
              /\ NoIdColumn => df.messages = {"error"}

\* a load whose read failed over a table that holds rows
C15_Witness ==
    /\ df.status = "error"
    /\ df.rows = <<>>
    /\ Len(sheet) >= 3

----------------------------------------------------------------------------
(* Properties of the identifier of a response *)

\* C17: a step that stores answers, submits or re-submits leaves the
\* response_id of survey_data as it was, and a save_response call for a
\* record that has a response_id reports that id and writes its row under
\* it.
C17_ResponseIdImmutable ==
    [][/\ ("response_id" \in DOMAIN survey_data /\ (FillForm \/ now' # now)) =>
            /\ "response_id" \in DOMAIN survey_data'
            /\ survey_data'["response_id"] = survey_data["response_id"]
       /\ (now' # now /\ last'.op = "save_response") =>
            /\ last'.rid = survey_data["response_id"]
            /\ last'.result \in {"Updated", "Inserted"} =>
                  sheet'[last'.pos][IdCol] = survey_data["response_id"]
            /\ last'.result = "SavedLocally" =>
                  csv'[last'.pos][IdCol] = survey_data["response_id"]]_vars

\* a loaded record was submitted again and its row updated under its id
C17_Witness ==
    /\ last.op = "save_response"
    /\ last.result = "Updated"
    /\ now >= 2
    /\ "_sheet_row" \in DOMAIN survey_data
    /\ "response_id" \in DOMAIN survey_data
    /\ last.rid = survey_data["response_id"]

----------------------------------------------------------------------------
(* Properties of the cache of load_responses *)

\* C18: a load_responses call made while st.cache_data holds an entry reads
\* nothing and returns the dataset of the entry, whatever was written to the
\* sheet since; a call made when there is no entry (none yet, expired, or
\* cleared by Refresh) reads the sheet once and returns a dataset of the
\* sheet as it is now; reads happen only in such calls, and an entry is
\* replaced only by such a call.
C18_CachedWindow ==
    [][/\ loads'.calls # loads.calls =>
            IF cache.valid
            THEN /\ loads'.reads = loads.reads
                 /\ df' = cache.value
                 /\ cache' = cache
            ELSE /\ loads'.reads = loads.reads + 1
                 /\ \E fails \in BOOLEAN : df' \in load_responses(sheet, fails)
                 /\ cache' = [valid |-> TRUE, value |-> df']
       /\ loads'.calls = loads.calls =>
            /\ loads'.reads = loads.reads
            /\ cache'.valid => cache' = cache
            /\ df' = df]_vars

\* a second load answered from the entry after the sheet has changed
C18_Witness ==
    /\ loads.calls >= 2
    /\ loads.reads = 1
    /\ cache.valid
    /\ df = cache.value
    /\ df.status = "ok"
    /\ df \notin load_responses(sheet, FALSE)

----------------------------------------------------------------------------
(* Properties of the local fallback file and of the row an update targets *)

\* C19 (as claimed): the local file, once it exists, starts with the
\* registry header, holds the header once and at least one data row; no step
\* changes or removes a line written earlier; a save that reports the local
\* write adds exactly one row of registry width, and no other step changes
\* the file.
C19_AppendOnlySingleHeader ==
    [][/\ csv_exists => csv_exists'
       /\ csv_exists' =>
            /\ Len(csv') >= 2
            /\ csv'[1] = columns
            /\ \A i \in 2..Len(csv') : csv'[i] # columns
       /\ \A i \in 1..Len(csv) : i <= Len(csv') /\ csv'[i] = csv[i]
       /\ IF now' # now /\ last'.op = "save_response"
                        /\ last'.result = "SavedLocally"
          THEN /\ Len(csv') = (IF csv_exists THEN Len(csv) ELSE 1) + 1
               /\ csv'[Len(csv')] = last'.row
               /\ Len(last'.row) = Len(columns)
          ELSE csv' = csv /\ csv_exists' = csv_exists]_vars

\* a stored row as load_responses holds it
AsRead(row) == NormalizeRow(ValuesGet(<<row>>)[1], Len(columns))

\* C20 (as claimed): when save_response updates a row of a table that holds
\* several rows of the response_id, the row it overwrites is the one
\* load_responses kept for that id, and afterwards the row load_responses
\* keeps for the id is the row written (for at least one of the orders the
\* sort of load_responses can produce).
C20_UpdatesCanonicalRow ==
    [][(/\ now' # now
        /\ last'.op = "save_response"
        /\ last'.result = "Updated"
        /\ Cardinality({i \in 2..Len(sheet) : sheet[i][IdCol] = last'.rid}) > 1)
        =>
        /\ \E view \in load_responses(sheet, FALSE) :
              \E i \in 1..Len(view.rows) :
                  view.rows[i] = AsRead(sheet[last'.pos])
        /\ \E view \in load_responses(sheet', FALSE) :
              \E i \in 1..Len(view.rows) : view.rows[i] = AsRead(last'.row)]_vars

----------------------------------------------------------------------------
(* Frame of the update path and of the insert path *)

\* the step is a save_response call in which no call raised
CleanSaveStep ==
    /\ now' # now
    /\ last'.op = "save_response"
    /\ last'.failed = {}

\* C21: a save_response call whose lookup finds the response_id at row p and
\* in which no call raises replaces row p (p >= 2, a row that carried the
\* id) by the row of the record and changes nothing else: the table keeps
\* its length, its header and every other row, and the local file is
\* untouched.
C21_UpdateFrame ==
    [][(CleanSaveStep /\ ScanForResponse(ValuesGet(sheet), last'.rid).exists)
        =>
        LET p == ScanForResponse(ValuesGet(sheet), last'.rid).row_number
        IN  /\ last'.result = "Updated"
            /\ last'.pos = p
            /\ p >= 2 /\ p <= Len(sheet)
            /\ sheet[p][IdCol] = last'.rid
            /\ Len(sheet') = Len(sheet)
            /\ sheet'[p] = last'.row
            /\ sheet'[p][IdCol] = last'.rid
            /\ \A i \in 1..Len(sheet) : i # p => sheet'[i] = sheet[i]
            /\ csv' = csv /\ csv_exists' = csv_exists]_vars

\* an update of the first data row of a table that holds another response
C21_Witness ==
    /\ last.op = "save_response"
    /\ last.result = "Updated"
    /\ last.failed = {}
    /\ last.pos = 2
    /\ Len(sheet) = 3
    /\ sheet[2] = last.row
    /\ sheet[3][IdCol] # last.rid

\* C22: a save_response call whose lookup reports no row for the
\* response_id and whose remote calls do not raise appends exactly one row,
\* the row of the record, below the existing rows and leaves them as they
\* were; it writes the registry header into row 1 exactly when cell A1 is
\* empty, so after the call row 1 is the registry header and the new row is
\* not in row 1, also when the table was cleared before the call.
C22_InsertFrame ==
    [][(/\ now' # now
        /\ last'.op = "save_response"
        /\ last'.failed \subseteq {"lookup"}
        /\ check_for_existing_response(sheet, last'.rid, last'.failed)
              = NotFound)
        =>
        /\ last'.result = "Inserted"
        /\ Len(sheet') = (IF Len(sheet) = 0 THEN 1 ELSE Len(sheet)) + 1
        /\ last'.pos = Len(sheet')
        /\ last'.pos >= 2
        /\ sheet'[last'.pos] = last'.row
        /\ sheet'[1] = columns
        /\ \A i \in 2..Len(sheet) : sheet'[i] = sheet[i]
        /\ (Len(sheet) >= 1 /\ TrimRow(sheet[1]) # <<>>) => sheet'[1] = sheet[1]
        /\ \A i \in 2..Len(sheet') : sheet'[i] # columns
        /\ csv' = csv /\ csv_exists' = csv_exists]_vars

\* an insert into a table that was cleared after the record in survey_data
\* had been loaded from its row 3
C22_Witness ==
    /\ last.op = "save_response"
    /\ last.result = "Inserted"
    /\ last.pos = 2
    /\ Len(sheet) = 2
    /\ sheet[1] = columns
    /\ Get(survey_data, "_sheet_row", "") = "3"

----------------------------------------------------------------------------
(* Properties of the order of the canonical view *)

\* the positions of the data rows of the sheet, as load_responses numbers
\* them, that carry response_id id
PositionsOf(id) ==
    {j \in 1..(Len(sheet) - 1) :
        NormalizeRow(ValuesGet(sheet)[j + 1], Len(sheet[1]))[IdCol] = id}

\* the sort key load_responses gives data row j of the sheet
KeyOf(j) ==
    IF IndexOf(sheet[1], "submitted_at") = 0 THEN [nat |-> FALSE, t |-> 0]
    ELSE ParseTimestamp(
            NormalizeRow(ValuesGet(sheet)[j + 1], Len(sheet[1]))[TsCol])

\* C23 (as claimed): when the rows of a response_id that have the greatest
\* parsed submitted_at are several (or the table has no submitted_at column,
\* so that all rows have the same timestamp), the row load_responses keeps
\* for the id is the last of them in the order of the raw table.
C23_TieKeepsLast ==
    df.status = "ok" =>
        \A i \in 1..Len(df.rows) :
            LET pos == PositionsOf(df.rows[i][IdCol])
                top == {j \in pos :
                          \A k \in pos : ~SortsBefore(KeyOf(j), KeyOf(k))}
                final == CHOOSE j \in top : \A k \in top : k <= j
            IN  (\A j \in pos : ~KeyOf(j).nat) =>
                    df.rows[i] =
                        NormalizeRow(ValuesGet(sheet)[final + 1], Len(sheet[1]))

\* C24 (as claimed): the rows load_responses returns stand in the order
\* they had in the raw table. Stated for tables whose data rows all have
\* timestamps that parse and differ, where the sort has one outcome.
C24_OrderPreserved ==
    (/\ df.status = "ok"
     /\ \A j, k \in 1..(Len(sheet) - 1) :
           /\ ~KeyOf(j).nat
           /\ j # k => KeyOf(j) # KeyOf(k))
        =>
        \E f \in [1..Len(df.rows) -> 1..(Len(sheet) - 1)] :
            /\ \A i, j \in 1..Len(df.rows) : i < j => f[i] < f[j]
            /\ \A i \in 1..Len(df.rows) :
                  df.rows[i] =
                      NormalizeRow(ValuesGet(sheet)[f[i] + 1], Len(sheet[1]))

----------------------------------------------------------------------------
(* Properties of the rows load_responses drops and of their width *)

\* the response_ids that are not empty among the data rows of the sheet
RawIdsOf == {id \in Uuids : PositionsOf(id) # {}}

\* C25: a load that returns rows has dropped exactly the rows whose
\* response_id cell is empty or absent: their number is the count it
\* reports, with a warning when it is not zero and never with an error;
\* every other response_id of the raw rows is in the dataset, and the
\* dataset has as many rows as the raw rows have distinct response_ids.
C25_MissingIdsDropped ==
    df.status = "ok" =>
        /\ df.missing_id_count = Cardinality(PositionsOf(""))
        /\ df.original_count = Len(sheet) - 1
        /\ ("warning" \in df.messages) <=> (PositionsOf("") # {})
        /\ "error" \notin df.messages
        /\ {df.rows[i][IdCol] : i \in 1..Len(df.rows)} = RawIdsOf
        /\ Len(df.rows) = Cardinality(RawIdsOf)

\* a load over a table with a blank row, a row without id and one response
C25_Witness ==
    /\ df.status = "ok"
    /\ df.missing_id_count = 2
    /\ Len(df.rows) = 1
    /\ "warning" \in df.messages
    /\ \E j \in 2..Len(sheet) : sheet[j] = <<>>

\* C26: every row of the dataset has the width of the header and is a data
\* row as the sheet returned it, cut after the last header column or
\* continued with empty strings up to it, so that its cell c is the cell c
\* of the raw row whenever the raw row has one.
C26_HeaderWidth ==
    df.status = "ok" =>
        \A i \in 1..Len(df.rows) :
            /\ Len(df.rows[i]) = Len(df.header)
            /\ \E j \in 2..Len(sheet) :
                  LET raw == ValuesGet(sheet)[j]
                  IN  \A c \in 1..Len(df.header) :
                          df.rows[i][c] = IF c <= Len(raw) THEN raw[c] ELSE ""

\* a load that returns a row that was longer than the header and a row that
\* ended after its id
C26_Witness ==
    /\ df.status = "ok"
    /\ Len(df.rows) = 2
    /\ \E j, k \in 2..Len(sheet) :
          /\ Len(sheet[j]) > Len(sheet[1])
          /\ sheet[k] = <<"ab12">>
          /\ \E i \in 1..Len(df.rows) :
                df.rows[i] = SubSeq(sheet[j], 1, Len(sheet[1]))

\* the caller whose last remote write came last
LastWriter ==
    CHOOSE p \in Procs : \A q \in Procs : saves[q].order <= saves[p].order

\* C27: when save_response calls for the same stored response_id run side by
\* side and none of them inserts, every one that has written wrote the same
\* position, the table has the rows it started with, that position holds the
\* row of the caller that wrote last, and every other row is as it was.
C27_LastWriterWins ==
    ((\E p \in Procs : saves[p].result = "Updated")
        /\ (\A p \in Procs : saves[p].result # "Inserted")) =>
        \E t \in ConcTables :
            /\ Len(t) = Len(sheet)
            /\ \E pos \in 2..Len(t) :
                  /\ t[pos][IdCol] = SharedId
                  /\ \A p \in Procs : saves[p].result = "Updated" =>
                                            saves[p].row_number = pos
                  /\ sheet[pos] = saves[LastWriter].row
                  /\ \A i \in 1..Len(t) : i # pos => sheet[i] = t[i]

\* both callers updated the stored row, and the one that read the clock
\* first wrote last
C27_Witness ==
    /\ \A p \in Procs : saves[p].result = "Updated"
    /\ Len(sheet) = 3
    /\ \E p, q \in Procs :
          /\ saves[p].order = 2
          /\ saves[q].order = 1
          /\ ParseTimestamp(saves[p].row[TsCol]).t
                < ParseTimestamp(saves[q].row[TsCol]).t
          /\ sheet[2] = saves[p].row

\* the data rows the two callers left for the shared id
SharedRows == {i \in 2..Len(sheet) : sheet[i][IdCol] = SharedId}

\* C28: when save_response calls for the same response_id run side by side,
\* a table that is not empty has the header in row 1 and in no other row,
\* and once the calls are over every dataset load_responses can return has
\* one row for the id, the raw row whose submitted_at is the latest.
C28_RaceCollapsed ==
    /\ sheet # <<>> =>
          /\ sheet[1] = columns
          /\ \A i \in 2..Len(sheet) : sheet[i] # columns
    /\ (\A p \in Procs : saves[p].pc = "done") =>
          \A view \in load_responses(sheet, FALSE) :
              /\ view.status = "ok"
              /\ \E i \in 1..Len(view.rows) :
                    /\ view.rows[i][IdCol] = SharedId
                    /\ \A k \in 1..Len(view.rows) :
                          view.rows[k][IdCol] = SharedId => k = i
                    /\ \E j \in SharedRows :
                          /\ view.rows[i] = sheet[j]
                          /\ \A g \in SharedRows :
                                ParseTimestamp(sheet[g][TsCol]).t
                                    <= ParseTimestamp(sheet[j][TsCol]).t

\* both callers found the table empty, both wrote the header and both
\* appended; the row with the later timestamp is the upper one
C28_Witness ==
    /\ \A p \in Procs : saves[p].result = "Inserted" /\ saves[p].is_empty
    /\ Len(sheet) = 3
    /\ Cardinality(SharedRows) = 2
    /\ ParseTimestamp(sheet[3][TsCol]).t < ParseTimestamp(sheet[2][TsCol]).t

\* C29: the position hint is in the record only after a successful
\* load_response_by_id, and no row written by save_response or
\* update_response, remote or local, has a value in its _sheet_row cell.
C29_PositionNeverStored ==
    LET hint == IndexOf(columns, "_sheet_row")
    IN  /\ last.row # <<>> => last.row[hint] = ""
        /\ \A i \in 2..Len(sheet) :
              Len(sheet[i]) >= hint => sheet[i][hint] = ""

\* a required field of the record is absent, empty or the number 0
Incomplete ==
    \E f \in required_fields :
        f \notin DOMAIN survey_data \/ survey_data[f] \in {"", NoMembers}

====
